---------------------------- MODULE Spec2Model ----------------------------
(***************************************************************************)
(* Model of flood.py, the Streamlit script of the Flood Digital Assistant. *)
(*                                                                         *)
(* Streamlit runs the script top to bottom once per browser event of a     *)
(* session; st.session_state is the per-session store that survives the    *)
(* runs.  A text (a Python str) is a sequence of fragments: text typed by  *)
(* a user, returned by the agent or carried by an exception is a sequence  *)
(* of one-character fragments, a string literal of the script is one       *)
(* fragment per source literal (per line for the triple-quoted block), and *)
(* concatenation is \o.  Three characters of the literals that a TLA+      *)
(* string cannot hold are transliterated: U+2019 and the backquote as ',   *)
(* U+21D4 as <=>.                                                          *)
(***************************************************************************)
EXTENDS Naturals, Sequences, FiniteSets

VARIABLES
  environ,          \* os.environ["OPENAI_API_KEY"] of the server process
  dotenv,           \* the OPENAI_API_KEY entry of the .env file
  data_dictionary,  \* the module-level name data_dictionary
  hardcoded_qa,     \* the module-level name hardcoded_qa
  session_state,    \* st.session_state of each session
  run,              \* the locals and position of each session's latest script run
  page              \* the elements each session's latest script run has emitted

vars == << environ, dotenv, data_dictionary, hardcoded_qa, session_state, run, page >>

-----------------------------------------------------------------------------
(* Bounds and input sets *)

\* longest transcript a session is driven to
MaxTurns == 4

Sessions == {"s1", "s2"}

-----------------------------------------------------------------------------
(* str.lower and str.strip *)

UpperCase == << "A", "B", "C", "D", "E", "F", "G", "H", "I", "J", "K", "L", "M",
                "N", "O", "P", "Q", "R", "S", "T", "U", "V", "W", "X", "Y", "Z" >>

LowerCase == << "a", "b", "c", "d", "e", "f", "g", "h", "i", "j", "k", "l", "m",
                "n", "o", "p", "q", "r", "s", "t", "u", "v", "w", "x", "y", "z" >>

Whitespace == {" ", "\t", "\n", "\r", "\f"}

LowerChar(c) ==
  IF \E i \in 1..Len(UpperCase) : UpperCase[i] = c
    THEN LowerCase[CHOOSE i \in 1..Len(UpperCase) : UpperCase[i] = c]
    ELSE c

lower(text) == [i \in 1..Len(text) |-> LowerChar(text[i])]

RECURSIVE lstrip(_)
lstrip(text) ==
  IF text # << >> /\ Head(text) \in Whitespace THEN lstrip(Tail(text)) ELSE text

RECURSIVE rstrip(_)
rstrip(text) ==
  IF text # << >> /\ text[Len(text)] \in Whitespace
    THEN rstrip(SubSeq(text, 1, Len(text) - 1))
    ELSE text

strip(text) == rstrip(lstrip(text))

-----------------------------------------------------------------------------
(* The script's constants *)

\* the text bound to data_dictionary
DataDictionary ==
  << "\n",
     "### Detailed Data Dictionary for 'flood.db'\n",
     "\n",
     "The database contains three tables: **inundation_forecasting**, **rainfall**, and **alerts**.\n",
     "Below is a detailed breakdown of each column and their relationships.\n",
     "\n",
     "---\n",
     "\n",
     "#### 1. inundation_forecasting\n",
     "- **datetime**: Timestamp indicating the date and time of the forecast (e.g. \"2025-01-01 08:00:00\").\n",
     "- **ht_forecast**: Numerical value representing the predicted water height or inundation level (e.g. \"5.2 feet\").\n",
     "- **latitude**: Geographic latitude coordinate for the forecast location (e.g. \"24.4539\").\n",
     "- **longitude**: Geographic longitude coordinate for the forecast location (e.g. \"54.3773\").\n",
     "\n",
     "**Purpose**:  \n",
     "This table is used to store predictive data for flooding. The 'ht_forecast' helps determine flood severity, and the lat/long fields map exactly where the forecast is applicable.\n",
     "\n",
     "---\n",
     "\n",
     "#### 2. rainfall\n",
     "- **precipInches**: Amount of rainfall measured in inches (e.g. \"0.75\").\n",
     "- **deviceId**: Unique identifier of the device recording rainfall (e.g. \"R123\").\n",
     "- **deviceLabel**: Human-readable label/name of the device (e.g. \"Downtown Rain Gauge\").\n",
     "- **region**: Region or area name associated with the device (e.g. \"Abu Dhabi City Center\").\n",
     "- **msr_date**: Date of the measurement (e.g. \"2025-01-05\").\n",
     "- **msr_time**: Time of the measurement (e.g. \"14:30:00\").\n",
     "- **latitude**: Geographic latitude coordinate of the device (e.g. \"24.4539\").\n",
     "- **longitude**: Geographic longitude coordinate of the device (e.g. \"54.3773\").\n",
     "- **msr_dttm**: Combined date-time of the measurement, often used for queries and analysis (e.g. \"2025-01-05 14:30:00\").\n",
     "\n",
     "**Purpose**:  \n",
     "This table tracks rainfall data from various devices. The 'region' column can be linked to the region in alerts or used in conjunction with lat/long to match forecasting data or alerts.\n",
     "\n",
     "---\n",
     "\n",
     "#### 3. alerts\n",
     "- **alertType**: Type of alert (e.g. \"Flood Warning\", \"Flash Flood\", \"High Tide\").\n",
     "- **alertSubtype**: More specific subtype of the alert (e.g. \"Severe\", \"Moderate\").\n",
     "- **alertSeverity**: Severity level (e.g. \"Critical\", \"High\", \"Medium\", \"Low\").\n",
     "- **alertMessage**: Text describing the alert (e.g. \"Flash Flood Watch in effect until 6 PM.\").\n",
     "- **deviceId**: Device ID associated with the alert; may link to 'rainfall.deviceId' if relevant.\n",
     "- **region**: Region name where the alert is applicable (e.g. \"Al Nahdah\").\n",
     "- **msr_dttm**: Combined date-time when the alert was issued (e.g. \"2025-01-05 14:45:00\").\n",
     "- **msr_date**: Date when the alert was issued (e.g. \"2025-01-05\").\n",
     "- **msr_time**: Time when the alert was issued (e.g. \"14:45:00\").\n",
     "- **msr_month**: Month of the alert, either numeric or textual (e.g. \"January\" or \"01\").\n",
     "- **Lat**: Latitude coordinate of the alert location (e.g. \"24.4539\").\n",
     "- **Long**: Longitude coordinate of the alert location (e.g. \"54.3773\").\n",
     "\n",
     "**Purpose**:  \n",
     "This table stores alerts that have been triggered, including the type of flood alert, severity, and location details.\n",
     "\n",
     "---\n",
     "\n",
     "### Potential Relationships:\n",
     "1. **alerts.deviceId** <=> **rainfall.deviceId**:  \n",
     "   If both the 'alerts' and 'rainfall' tables share the same device ID, they can be joined to correlate which specific rainfall device triggered an alert.\n",
     "2. **alerts.region** <=> **rainfall.region**:  \n",
     "   If you want to track all alerts for a given region, you can join on the 'region' column. The same can be done with 'inundation_forecasting' if you assign region names consistently or rely on the lat/long proximity to match the region.\n",
     "3. **Spatial/Geographic Matching**:  \n",
     "   By comparing lat/long values in 'inundation_forecasting', 'rainfall', and 'alerts', you can determine how different meteorological or hydrological events line up in the same area.\n",
     "\n",
     "---\n",
     "\n",
     "### Usage:\n",
     "Use this data dictionary to understand the purpose of each field when querying the database or building flood-related analytics.\n" >>

key1 ==
  << "w", "h", "i", "c", "h", " ", "a", "r", "e", "a", " ", "w", "i", "l", "l", " ",
     "h", "a", "v", "e", " ", "a", " ", "h", "i", "g", "h", " ", "i", "m", "p", "a",
     "c", "t", " ", "f", "o", "r", " ", "f", "u", "t", "u", "r", "e", " ", "f", "l",
     "o", "o", "d", "s" >>

answer1 ==
  << "Based on our historical data and current forecasting models, ",
     "the areas that exhibit the highest vulnerability to future flood events ",
     "are **Al Adlah**, **Al Nahdah**, **Bu Deeb**, and **Al Haffar**. ",
     "These locations consistently appear in our inundation forecasts due to ",
     "their geographical profiles and proximity to low-lying flood plains." >>

key2 ==
  << "r", "e", "c", "o", "m", "m", "e", "n", "d", "a", "t", "i", "o", "n", " ", "t",
     "o", " ", "r", "e", "d", "u", "c", "e", " ", "i", "m", "p", "a", "c", "t" >>

answer2 ==
  << "To mitigate the risk in these high-impact areas, we recommend an integrated approach:\n\n",
     "1. **Infrastructure Upgrades**: Enhance and maintain drainage systems, and consider building ",
     "   protective levees or flood barriers.\n",
     "2. **Smart Monitoring**: Install additional rainfall gauges and flood sensors for real-time monitoring.\n",
     "3. **Urban Planning**: Implement zoning regulations to limit construction in flood-prone zones.\n",
     "4. **Community Preparedness**: Conduct regular flood drills, ensure early-warning systems are in place, ",
     "   and provide public education on emergency response." >>

key3 ==
  << "w", "h", "y", " ", "a", "r", "e", " ", "t", "h", "e", "s", "e", " ", "a", "r",
     "e", "a", "s", " ", "i", "m", "p", "a", "c", "t", "e", "d" >>

answer3 ==
  << "These regions are particularly vulnerable due to a combination of factors:\n\n",
     "- **Topography**: Areas like Al Adlah and Al Nahdah have lower elevations, causing water to accumulate.\n",
     "- **Coastal Proximity**: Bu Deeb is near a coastal plain, making it susceptible to storm surges.\n",
     "- **Drainage and Infrastructure**: Al Haffar's drainage systems may require updates to handle heavy rainfall.\n",
     "- **Historical Patterns**: Data shows these areas have experienced recurring flood incidents, ",
     "   indicating underlying vulnerabilities that require focused intervention." >>

\* the dict literal bound to hardcoded_qa, as its items in order
HardcodedQa ==
  << [question |-> key1, answer |-> answer1],
     [question |-> key2, answer |-> answer2],
     [question |-> key3, answer |-> answer3] >>

\* `k in d` and `d[k]` of a dict kept as its sequence of items
Contains(d, k) == \E i \in 1..Len(d) : d[i].question = k

Lookup(d, k) == d[CHOOSE i \in 1..Len(d) : d[i].question = k].answer

-----------------------------------------------------------------------------
(* What the browser, the environment and the agent can supply *)

q_capitalised ==
  << "R", "e", "c", "o", "m", "m", "e", "n", "d", "a", "t", "i", "o", "n", " ", "T",
     "o", " ", "R", "e", "d", "u", "c", "e", " ", "I", "m", "p", "a", "c", "t" >>

q_padded ==
  << " ", " ", "W", "h", "y", " ", "a", "r", "e", " ", "t", "h", "e", "s", "e", " ",
     "a", "r", "e", "a", "s", " ", "i", "m", "p", "a", "c", "t", "e", "d", "\n" >>

q_near_miss ==
  << "w", "h", "y", " ", "a", "r", "e", " ", "t", "h", "e", "s", "e", " ", "a", "r",
     "e", "a", "s", " ", "i", "m", "p", "a", "c", "t", "e", "d", "?" >>

q_other ==
  << "W", "h", "a", "t", " ", "i", "s", " ", "t", "h", "e", " ", "r", "a", "i", "n",
     "f", "a", "l", "l", " ", "i", "n", " ", "A", "b", "u", " ", "D", "h", "a", "b",
     "i", " ", "t", "o", "d", "a", "y", "?" >>

q_blank ==
  << " " >>

agent_output_padded ==
  << " ", "1", "2", " ", "m", "m", "\n" >>

agent_output_plain ==
  << "N", "o", " ", "D", "a", "t", "a" >>

error_connection ==
  << "C", "o", "n", "n", "e", "c", "t", "i", "o", "n", " ", "e", "r", "r", "o", "r", "." >>

api_key_value ==
  << "s", "k" >>

\* what st.text_input can return: nothing typed, blanks, the keys as written and
\* re-cased or padded, a key with one more character, and a free question
Questions ==
  { << >>, q_blank, key1, key2, q_capitalised, q_padded, q_near_miss, q_other }

\* the "output" entry of the dict agent_executor.invoke returns
AgentOutputs == { agent_output_padded, agent_output_plain }

\* str(e) of an exception agent_executor.invoke raises
ErrorMessages == { << >>, error_connection }

\* an environment entry: os.getenv gives None when it is not present
EnvValues ==
  { [present |-> FALSE, value |-> << >>],
    [present |-> TRUE, value |-> << >>],
    [present |-> TRUE, value |-> api_key_value] }

\* the questions, agent answers and errors used when two sessions are interleaved
FewQuestions == { << >>, key2, q_other }

FewOutputs == { agent_output_plain }

FewErrors == { error_connection }

-----------------------------------------------------------------------------
(* Steps of the script *)

\* load_dotenv(): an entry of the .env file is set unless the environment has one
load_dotenv(env, file) == IF ~env.present /\ file.present THEN file ELSE env

\* `if api_key is None`: an empty credential passes
api_key_not_none(api_key) == api_key.present

\* `if not api_key` is taken for None and for the empty string
api_key_found(api_key) == api_key.present /\ api_key.value # << >>

\* the assignment without its `not in` test
init_conversation_always(st) ==
  [st EXCEPT !.keys = @ \cup {"conversation"}, !.conversation = << >>]

\* `if "conversation" not in st.session_state: st.session_state.conversation = []`
init_conversation(st) ==
  IF "conversation" \in st.keys
    THEN st
    ELSE [st EXCEPT !.keys = @ \cup {"conversation"}, !.conversation = << >>]

\* user_input.lower() alone
normalize_lower_only(user_input) == lower(user_input)

\* user_input.lower().strip()
normalize(user_input) == strip(lower(user_input))

\* the query built from user_input_lower
build_query_lowered(dictionary, user_input) ==
  dictionary \o << "\n\n" >> \o strip(lower(user_input))

\* f"{data_dictionary}\n\n{user_input}"
build_query(dictionary, user_input) == dictionary \o << "\n\n" >> \o user_input

\* result.strip() appended
append_answer_stripped(conversation, user_input, result) ==
  conversation \o << << "User", user_input >>, << "Assistant", strip(result) >> >>

\* the list assigned instead of appended to
append_answer_assigned(conversation, user_input, result) ==
  << << "User", user_input >>, << "Assistant", result >> >>

\* the User append left out
append_answer_only(conversation, user_input, result) ==
  Append(conversation, << "Assistant", result >>)

\* the two appends of the try block
append_answer(conversation, user_input, result) ==
  conversation \o << << "User", user_input >>, << "Assistant", result >> >>

\* str(e) appended without its prefix
append_error_bare(conversation, e) == Append(conversation, << "Assistant", e >>)

\* the append of the except block
append_error(conversation, e) ==
  Append(conversation, << "Assistant", << "Error: " >> \o e >>)

\* the display loop: one st.markdown per turn
display(conversation) ==
  [i \in 1..Len(conversation) |->
     IF conversation[i][1] = "User"
       THEN << "**You:** " >> \o conversation[i][2]
       ELSE << "**Assistant:** " >> \o conversation[i][2]]

\* st.title, st.write and the st.text_input widget
page_head ==
  << << "Flood Digital Assistant" >>,
     << "Ask me anything about floods in Abu Dhabi" >>,
     << "You:" >> >>

\* one module-level store for all sessions
store_global(states, s, st) == [t \in DOMAIN states |-> st]

\* st.session_state is kept per session: a run of session s writes its own
store(states, s, st) == [states EXCEPT ![s] = st]

-----------------------------------------------------------------------------
(* State *)

\* a run that has assigned none of its locals; setup says that the database,
\* the model and the agent have been constructed, response is the dict that
\* agent_executor.invoke returned, e the message of the exception it raised
NoRun ==
  [pc |-> "idle", setup |-> FALSE, user_input |-> << >>, user_input_lower |-> << >>,
   query |-> << >>, response |-> [output |-> << >>], result |-> << >>, e |-> << >>,
   lookups |-> 0, invocations |-> << >>, caught |-> FALSE]

NoSessionState == [keys |-> {}, conversation |-> << >>, user_input |-> << >>]

Init ==
  /\ environ \in EnvValues
  /\ dotenv \in EnvValues
  /\ data_dictionary = << >>
  /\ hardcoded_qa = << >>
  /\ session_state = [s \in Sessions |-> NoSessionState]
  /\ run = [s \in Sessions |-> NoRun]
  /\ page = [s \in Sessions |-> << >>]

-----------------------------------------------------------------------------
(* One run of the script, up to its end or to the call of the agent *)

ScriptRun(s, value) ==
  LET api_key == load_dotenv(environ, dotenv)
      st0 == [session_state[s] EXCEPT !.user_input = value]
      st1 == init_conversation(st0)
      user_input_lower == normalize(value)
      query == build_query(DataDictionary, value)
      result == Lookup(HardcodedQa, user_input_lower)
      st2 == [st1 EXCEPT !.conversation = append_answer(@, value, result)]
  IN
  /\ run[s].pc # "invoke"
  /\ value = << >> \/ Len(session_state[s].conversation) + 2 <= MaxTurns
  /\ environ' = api_key
  /\ UNCHANGED dotenv
  /\ IF ~api_key_found(api_key)
       THEN \* raise ValueError: the run ends before anything else is set up
         /\ session_state' = store(session_state, s, st0)
         /\ run' = [run EXCEPT ![s] = [NoRun EXCEPT !.pc = "aborted"]]
         /\ page' = [page EXCEPT ![s] = << >>]
         /\ UNCHANGED << data_dictionary, hardcoded_qa >>
       ELSE
         /\ data_dictionary' = DataDictionary
         /\ hardcoded_qa' = HardcodedQa
         /\ IF value = << >>
              THEN \* `if user_input:` is not taken
                /\ session_state' = store(session_state, s, st1)
                /\ run' = [run EXCEPT ![s] =
                             [NoRun EXCEPT !.pc = "done", !.setup = TRUE]]
                /\ page' = [page EXCEPT ![s] =
                              page_head \o display(st1.conversation)]
              ELSE IF Contains(HardcodedQa, user_input_lower)
              THEN \* the hardcoded answer, then both appends and the display
                /\ session_state' = store(session_state, s, st2)
                /\ run' = [run EXCEPT ![s] =
                             [NoRun EXCEPT !.pc = "done", !.setup = TRUE,
                                           !.user_input_lower = user_input_lower,
                                           !.query = query, !.result = result,
                                           !.lookups = 1]]
                /\ page' = [page EXCEPT ![s] =
                              page_head \o display(st2.conversation)]
              ELSE \* agent_executor.invoke({"input": query}) is called and blocks
                /\ session_state' = store(session_state, s, st1)
                /\ run' = [run EXCEPT ![s] =
                             [NoRun EXCEPT !.pc = "invoke", !.setup = TRUE,
                                           !.user_input = value,
                                           !.user_input_lower = user_input_lower,
                                           !.query = query, !.lookups = 1,
                                           !.invocations = << query >>]]
                /\ page' = [page EXCEPT ![s] = page_head]

\* the user enters a new value in the text input: Streamlit reruns the script
Submit(s, value) ==
  /\ value # session_state[s].user_input
  /\ ScriptRun(s, value)

\* Streamlit runs the script when the page is loaded and reruns it with the
\* widget as it is; `user_input = ""` clears the local, not the widget
Rerun(s) ==
  /\ session_state[s].user_input \in Questions
  /\ ScriptRun(s, session_state[s].user_input)

\* agent_executor.invoke returns: ["output"] is the result, the try block goes
\* on to both appends, then the local is cleared and the transcript displayed
AgentReturns(s, output) ==
  LET response == [output |-> output]
      result == response.output
      st == [session_state[s] EXCEPT
               !.conversation = append_answer(@, run[s].user_input, result)]
  IN
  /\ run[s].pc = "invoke"
  /\ session_state' = store(session_state, s, st)
  /\ run' = [run EXCEPT ![s].pc = "done", ![s].response = response,
                        ![s].result = result, ![s].user_input = << >>]
  /\ page' = [page EXCEPT ![s] = @ \o display(st.conversation)]
  /\ UNCHANGED << environ, dotenv, data_dictionary, hardcoded_qa >>

\* agent_executor.invoke raises an Exception whose str is message: the except
\* block appends, then the local is cleared and the transcript displayed
AgentRaises(s, message) ==
  LET st == [session_state[s] EXCEPT !.conversation = append_error(@, message)]
  IN
  /\ run[s].pc = "invoke"
  /\ session_state' = store(session_state, s, st)
  /\ run' = [run EXCEPT ![s].pc = "done", ![s].caught = TRUE, ![s].e = message,
                        ![s].user_input = << >>]
  /\ page' = [page EXCEPT ![s] = @ \o display(st.conversation)]
  /\ UNCHANGED << environ, dotenv, data_dictionary, hardcoded_qa >>

-----------------------------------------------------------------------------
(* Specifications *)

\* one session, every question, answer and error
Next ==
  \E s \in {"s1"} :
    \/ \E value \in Questions : Submit(s, value)
    \/ Rerun(s)
    \/ \E output \in AgentOutputs : AgentReturns(s, output)
    \/ \E message \in ErrorMessages : AgentRaises(s, message)

Spec == Init /\ [][Next]_vars

\* every session of the server, interleaved at the calls of the agent, the
\* credential being in the environment
InitShared == Init /\ api_key_found(environ) /\ ~dotenv.present

NextShared ==
  \E s \in Sessions :
    \/ \E value \in FewQuestions : Submit(s, value)
    \/ Rerun(s)
    \/ \E output \in FewOutputs : AgentReturns(s, output)
    \/ \E message \in FewErrors : AgentRaises(s, message)

SpecShared == InitShared /\ [][NextShared]_vars

-----------------------------------------------------------------------------
(* Vocabulary of the properties *)

Conv(s) == session_state[s].conversation

Widget(s) == session_state[s].user_input

IsPrefix(a, b) == Len(a) <= Len(b) /\ SubSeq(b, 1, Len(a)) = a

\* the lower-cased, trimmed form of w is one of the three keys
IsCanonical(w) == strip(lower(w)) \in {key1, key2, key3}

\* the fixed string stored for the key w normalises to
CannedFor(w) ==
  CASE strip(lower(w)) = key1 -> answer1
    [] strip(lower(w)) = key2 -> answer2
    [] strip(lower(w)) = key3 -> answer3

\* the prompt a question w is delegated with
PromptFor(w) == DataDictionary \o << "\n\n" >> \o w

IsErrorTurn(turn) ==
  turn[1] = "Assistant" /\ turn[2] # << >> /\ turn[2][1] = "Error: "

HasErrorTurn(c) == \E i \in 1..Len(c) : IsErrorTurn(c[i])

\* the credential the script finds is None or empty
CredentialMissing ==
  LET api_key == load_dotenv(environ, dotenv)
  IN ~api_key.present \/ api_key.value = << >>

\* some of session s's state changes in the step
Acts(s) ==
  run'[s] # run[s] \/ session_state'[s] # session_state[s] \/ page'[s] # page[s]

-----------------------------------------------------------------------------
(* Properties *)

\* C1: whenever a run has finished on a question whose lower-cased, trimmed form
\* is a canonical key, its result and the Assistant turn it appended are exactly
\* the string stored for that key, and the agent was not invoked in the run;
\* this in every reachable state, whatever was submitted before.
C1_CannedAnswer ==
  \A s \in Sessions :
    (run[s].pc = "done" /\ IsCanonical(Widget(s))) =>
      LET c == Conv(s)
          n == Len(c)
      IN /\ run[s].result = CannedFor(Widget(s))
         /\ run[s].invocations = << >>
         /\ ~run[s].caught
         /\ n >= 2
         /\ c[n - 1] = << "User", Widget(s) >>
         /\ c[n] = << "Assistant", CannedFor(Widget(s)) >>

\* a padded, re-cased key answered from the table after a failed delegated call
C1_Witness ==
  /\ run["s1"].pc = "done"
  /\ Widget("s1") = q_padded
  /\ Len(Conv("s1")) = 3
  /\ IsErrorTurn(Conv("s1")[1])
  /\ Conv("s1")[3] = << "Assistant", answer3 >>

\* C2: a run on a non-empty question that is not a canonical key invokes the
\* agent exactly once, with the data dictionary, a blank line and the question
\* as it was typed.
C2_DelegatedOnce ==
  \A s \in Sessions :
    (run[s].pc \in {"invoke", "done"} /\ Widget(s) # << >> /\ ~IsCanonical(Widget(s))) =>
      run[s].invocations = << PromptFor(Widget(s)) >>

\* a key with one more character was delegated as typed, after another question
C2_Witness ==
  /\ run["s1"].pc = "done"
  /\ Widget("s1") = q_near_miss
  /\ run["s1"].invocations = << PromptFor(q_near_miss) >>
  /\ Len(Conv("s1")) = 4

\* C3: when the agent's call raises, the run still ends normally and the turn it
\* appended is (Assistant, "Error: " followed by the exception's message),
\* which is the last line of the page.
C3_ErrorCaught ==
  \A s \in Sessions :
    run[s].caught =>
      LET c == Conv(s)
          n == Len(c)
      IN /\ run[s].pc = "done"
         /\ n >= 1
         /\ c[n] = << "Assistant", << "Error: " >> \o run[s].e >>
         /\ page[s][Len(page[s])] = << "**Assistant:** ", "Error: " >> \o run[s].e

\* a connection error was raised and caught
C3_Witness ==
  /\ run["s1"].caught
  /\ run["s1"].e = error_connection
  /\ Conv("s1")[Len(Conv("s1"))] = << "Assistant", << "Error: " >> \o error_connection >>

\* C4: every finished run on a non-empty question has left a User turn with the
\* submitted text followed by an Assistant turn at the end of the transcript,
\* shown as a You line and an Assistant line.
C4_UserThenAssistant ==
  \A s \in Sessions :
    (run[s].pc = "done" /\ Widget(s) # << >>) =>
      LET c == Conv(s)
          n == Len(c)
          m == Len(page[s])
      IN /\ n >= 2
         /\ c[n - 1] = << "User", Widget(s) >>
         /\ c[n][1] = "Assistant"
         /\ page[s][m - 1] = << "**You:** " >> \o Widget(s)
         /\ page[s][m] = << "**Assistant:** " >> \o c[n][2]

\* C5: once the transcript holds an error turn and the run that got it is over,
\* every later run of the session starts and is resolved as usual, on top of
\* the transcript as it was: nothing for an empty input, the stored answer
\* without a call for a canonical question, one call of the agent otherwise.
C5_ContinuesAfterError ==
  [][\A s \in Sessions :
       (HasErrorTurn(Conv(s)) /\ run[s].pc = "done" /\ Acts(s)) =>
         LET w == session_state'[s].user_input
             c == session_state'[s].conversation
         IN /\ IsPrefix(Conv(s), c)
            /\ run'[s].pc \in {"invoke", "done"}
            /\ w = << >> => c = Conv(s) /\ run'[s].pc = "done"
            /\ IsCanonical(w) =>
                 /\ c = Conv(s) \o << << "User", w >>,
                                      << "Assistant", CannedFor(w) >> >>
                 /\ run'[s].invocations = << >>
                 /\ run'[s].pc = "done"
            /\ (w # << >> /\ ~IsCanonical(w)) =>
                 /\ c = Conv(s)
                 /\ run'[s].invocations = << PromptFor(w) >>
                 /\ run'[s].pc = "invoke"
    ]_vars

\* an error turn, then a delegated question answered by the agent
C5_Witness ==
  /\ run["s1"].pc = "done"
  /\ ~run["s1"].caught
  /\ Len(Conv("s1")) = 3
  /\ IsErrorTurn(Conv("s1")[1])
  /\ Conv("s1")[2] = << "User", q_other >>
  /\ Conv("s1")[3] = << "Assistant", agent_output_plain >>

\* C6: while the credential is missing or empty, nothing past the check has
\* happened: the dictionary and the table are unbound, no run has constructed
\* the agent, looked a question up, called the agent or emitted an element, and
\* no session has a transcript.
C6_NoStartWithoutCredential ==
  CredentialMissing =>
    /\ data_dictionary = << >>
    /\ hardcoded_qa = << >>
    /\ \A s \in Sessions :
         /\ run[s].pc \in {"idle", "aborted"}
         /\ ~run[s].setup
         /\ run[s].lookups = 0
         /\ run[s].invocations = << >>
         /\ session_state[s].keys = {}
         /\ Conv(s) = << >>
         /\ page[s] = << >>

\* a canonical question was submitted with an empty credential and the run aborted
C6_Witness ==
  /\ CredentialMissing
  /\ environ.present
  /\ run["s1"].pc = "aborted"
  /\ Widget("s1") = key1

\* C7: after a delegated run that the agent answered, the last two turns are the
\* question as typed and the "output" of the agent's response, fragment for
\* fragment.
C7_OutputVerbatim ==
  \A s \in Sessions :
    (run[s].pc = "done" /\ ~run[s].caught /\ run[s].invocations # << >>) =>
      LET c == Conv(s)
          n == Len(c)
      IN /\ run[s].response.output \in AgentOutputs
         /\ n >= 2
         /\ c[n - 1] = << "User", Widget(s) >>
         /\ c[n] = << "Assistant", run[s].response.output >>

\* the agent's answer began with a blank and ended with a newline
C7_Witness ==
  /\ run["s1"].pc = "done"
  /\ run["s1"].response.output = agent_output_padded
  /\ Conv("s1")[Len(Conv("s1"))] = << "Assistant", agent_output_padded >>

\* C8: every step leaves each session's transcript a prefix of what it becomes
\* and keeps the conversation key once it is set; a session without the key has
\* no turn; every turn's speaker is User or Assistant.
C8_AppendOnly ==
  [][\A s \in Sessions :
       /\ IsPrefix(Conv(s), session_state'[s].conversation)
       /\ session_state[s].keys \subseteq session_state'[s].keys
       /\ "conversation" \notin session_state'[s].keys =>
            session_state'[s].conversation = << >>
       /\ \A i \in 1..Len(session_state'[s].conversation) :
            session_state'[s].conversation[i][1] \in {"User", "Assistant"}
    ]_vars

\* two submissions, then a rerun with the input emptied
C8_Witness ==
  /\ run["s1"].pc = "done"
  /\ Widget("s1") = << >>
  /\ Len(Conv("s1")) = 4

\* C9: a step in which one session acts leaves the session state, the run and
\* the page of every other session as they were, and the dictionary and the
\* table, once bound, keep their value in every step.
C9_SessionsIndependent ==
  [][/\ \A s \in Sessions : \A t \in Sessions \ {s} :
          Acts(s) =>
            /\ session_state'[t] = session_state[t]
            /\ run'[t] = run[t]
            /\ page'[t] = page[t]
     /\ hardcoded_qa # << >> => hardcoded_qa' = hardcoded_qa
     /\ data_dictionary # << >> => data_dictionary' = data_dictionary
    ]_vars

\* one session waits for the agent while the other has finished two runs
C9_Witness ==
  /\ run["s1"].pc = "invoke"
  /\ Len(Conv("s1")) = 1
  /\ run["s2"].pc = "done"
  /\ Len(Conv("s2")) = 3
  /\ hardcoded_qa = HardcodedQa

\* C10: a step changes a transcript in one of three ways: not at all (always so
\* for an empty input, which is neither looked up nor delegated, and while the
\* agent's answer is awaited); by (User, the text typed) then (Assistant, the
\* result), when a run ends with a result; by one (Assistant, "Error: ...") turn
\* when the call raised.  So every User turn is directly followed by an
\* Assistant turn.
C10_ThreeWays ==
  [][\A s \in Sessions :
       LET c == Conv(s)
           d == session_state'[s].conversation
           w == session_state'[s].user_input
       IN /\ \/ d = c
             \/ /\ d = c \o << << "User", w >>, << "Assistant", run'[s].result >> >>
                /\ w # << >>
                /\ run'[s].pc = "done"
                /\ ~run'[s].caught
             \/ /\ Len(d) = Len(c) + 1
                /\ IsPrefix(c, d)
                /\ IsErrorTurn(d[Len(d)])
                /\ run[s].pc = "invoke"
                /\ run'[s].caught
          /\ run'[s].pc = "invoke" => d = c
          /\ (run[s].pc = "invoke" /\ run'[s].pc = "done") => d # c
          /\ (Acts(s) /\ run[s].pc # "invoke" /\ w = << >>) =>
               d = c /\ run'[s].lookups = 0 /\ run'[s].invocations = << >>
          /\ \A i \in 1..Len(d) :
               d[i][1] = "User" => i < Len(d) /\ d[i + 1][1] = "Assistant"
    ]_vars

\* a transcript made by a canned answer and then a caught error
C10_Witness ==
  /\ Len(Conv("s1")) = 3
  /\ Conv("s1")[1][1] = "User"
  /\ Conv("s1")[2][1] = "Assistant"
  /\ IsErrorTurn(Conv("s1")[3])
  /\ run["s1"].caught

=============================================================================
